---- MODULE Spec2Model ----
(***************************************************************************)
(* The formatting engine of spotdl/utils/formatter.py: slugify,            *)
(* sanitize_string, format_query, create_search_query, create_file_name,   *)
(* restrict_filename and the two lru_cache memoization caches.             *)
(*                                                                         *)
(* A Python str is a sequence of one-character strings.  None is the       *)
(* record None; a present Optional value v is Some(v).                     *)
(***************************************************************************)
EXTENDS Integers, Sequences, FiniteSets, TLC

VARIABLES
    pc,             \* position of the caller: "idle", inside create_file_name, or done
    op,             \* the top-level operation that was called
    song,           \* the Song object passed to the operation (mutable, shared with the caller)
    song0,          \* history: the Song's fields at the moment of the top-level call
    template,       \* create_file_name's local `template` of the current invocation

    file_extension, \* the file_extension argument
    santitize,      \* format_query's santitize argument
    restrict,       \* create_file_name's restrict argument
    short,          \* the short argument of the current invocation
    attempts,       \* history: <<template, short>> of every format_query pass of this call
    fq,             \* what the last format_query pass computed
    file,           \* create_file_name: the parts of `file` after the sanitizing loop
    result,         \* the value returned (a str, or the parts of a Path) or the error raised
    kks,            \* slugify: the list KKS.convert returned in the last CJK call
    slug_cache,     \* lru_cache of slugify, least recently used first
    ratio_cache,    \* lru_cache of ratio, least recently used first
    last_call,      \* history: the last direct slugify/ratio call: its key, whether the key
                    \* had been used before, whether the cache answered it
    called,         \* history: the keys of the direct slugify/ratio calls made so far
    ncalls,         \* history: number of distinct keys among them

    meta_pc,        \* meta: "idle", "loop" (inside run_until_complete), "returned", "raised"
    paths,          \* meta: the number of selected files; file i is paths[i - 1]
    force_update_metadata, \* downloader.settings["force_update_metadata"]
    semaphore,      \* downloader.semaphore: its value
    waiters,        \* downloader.semaphore: the tasks blocked in acquire, first come first
    tasks,          \* position of every pool_worker task of the gather
    process,        \* position of every process_file call in the executor's threads
    song_meta,      \* process_file: the fields get_file_metadata returned a value for
    gathered        \* the future of asyncio.gather: "none", "pending", "result", "exception"

vars == <<pc, op, song, song0, template, file_extension, santitize,
          restrict, short, attempts, fq, file, result, kks, slug_cache,
          ratio_cache, last_call, called, ncalls,
          meta_pc, paths, force_update_metadata, semaphore, waiters, tasks, process,
          song_meta, gathered>>

\* the variables of the formatter and of its caches
formatterVars == <<pc, op, song, song0, template, file_extension, santitize,
                   restrict, short, attempts, fq, file, result, kks, slug_cache,
                   ratio_cache, last_call, called, ncalls>>

\* the variables of meta
metaVars == <<meta_pc, paths, force_update_metadata, semaphore, waiters, tasks, process,
              song_meta, gathered>>

\* meta has not been called
MetaIdle ==
    /\ meta_pc = "idle"
    /\ paths = 0
    /\ force_update_metadata = FALSE
    /\ semaphore = 0
    /\ waiters = <<>>
    /\ tasks = <<>>
    /\ process = <<>>
    /\ song_meta = <<>>
    /\ gathered = "none"

\* ------------------------------------------------------------------------
\* Bounds of the model
\* ------------------------------------------------------------------------
\* longest list KKS.convert returns
MaxSegs == 3
\* SpecCache calls a memoized function with LruMaxSize + ExtraCalls distinct keys
ExtraCalls == 2

\* ------------------------------------------------------------------------
\* Python values
\* ------------------------------------------------------------------------
None == [some |-> FALSE, v |-> <<>>]
Some(x) == [some |-> TRUE, v |-> x]

\* no direct call of a memoized function yet
NoCall == [key |-> <<>>, again |-> FALSE, hit |-> FALSE]

\* The element of a one-element set.  A chain of steps is written
\*     The({ G(b) : b \in { F(a) : a \in { x } } })
\* which computes x, then F of it, then G of that, one after the other: an
\* operator's argument is otherwise computed where the operator first reads
\* it, inside the computation that needs it
The(S) == CHOOSE x \in S : TRUE

SetMin(S) == CHOOSE x \in S : \A y \in S : x <= y
SetMax(S) == CHOOSE x \in S : \A y \in S : x >= y

\* the function f with domain 1..n as a tuple (TLC then holds its elements,
\* and does not compute them again at every application)
Tuple(f) == <<>> \o f

Rep(c, n) == Tuple([i \in 1..n |-> c])

Digits == <<"0", "1", "2", "3", "4", "5", "6", "7", "8", "9">>
RECURSIVE StrInt(_)
StrInt(n) == IF n < 10 THEN <<Digits[n + 1]>> ELSE StrInt(n \div 10) \o <<Digits[(n % 10) + 1]>>

\* str(x) of an Optional str: str(None) is "None"
PyStr(x) == IF x.some THEN x.v ELSE <<"N", "o", "n", "e">>

\* s.zfill(w)
Zfill(s, w) == IF Len(s) >= w THEN s ELSE Rep("0", w - Len(s)) \o s

\* s[i:i+len(t)] == t
MatchAt(s, t, i) ==
    /\ i >= 1
    /\ i + Len(t) - 1 <= Len(s)
    /\ \A j \in 1..Len(t) : s[i + j - 1] = t[j]

\* t in s
Contains(s, t) == \E i \in 1..(Len(s) - Len(t) + 1) : MatchAt(s, t, i)

StartsWith(s, t) == MatchAt(s, t, 1)
EndsWith(s, t) == Len(t) <= Len(s) /\ MatchAt(s, t, Len(s) - Len(t) + 1)

\* index of the first occurrence of old in s at or after i, 0 when there is none
NextMatch(s, old, i) ==
    The({ IF c = {} THEN 0 ELSE SetMin(c) :
            c \in { {k \in i..(Len(s) - Len(old) + 1) : MatchAt(s, old, k)} } })

\* s.replace(old, new) for a non-empty old: left to right, non-overlapping, one pass
RECURSIVE ReplaceFrom(_, _, _, _)
ReplaceFrom(s, old, new, i) ==
    The({ IF k = 0 THEN SubSeq(s, i, Len(s))
          ELSE SubSeq(s, i, k - 1) \o new \o ReplaceFrom(s, old, new, k + Len(old)) :
            k \in { NextMatch(s, old, i) } })
Replace(s, old, new) == ReplaceFrom(s, old, new, 1)

\* the characters s[i] of s with keep(i), in order
SelectIdx(s, keep(_)) ==
    The({ Tuple([k \in 1..Len(kept) |-> s[kept[k]]]) :
            kept \in { SelectSeq(Tuple([i \in 1..Len(s) |-> i]), keep) } })

\* "".join(f(c) for c in s), for an f that gives at most two characters:
\* slot 2i-1 holds the first character of f(s[i]), slot 2i the second, and
\* the empty slots are dropped
FlatMap(s, f(_)) ==
    The({ Tuple([k \in 1..Len(full) |-> full[k][1]]) : full \in
        { SelectSeq(slots, LAMBDA e : e /= <<>>) : slots \in
        { Tuple([j \in 1..(2 * Len(s)) |->
              LET r == f(s[(j + 1) \div 2])
                  n == 2 - (j % 2)
              IN  IF n <= Len(r) THEN <<r[n]>> ELSE <<>>]) } } })

\* "".join(c for c in s if c not in bad)
RemoveChars(s, bad) == SelectSeq(s, LAMBDA c : c \notin bad)

\* s.lstrip(chars), s.strip(chars)
LStrip(s, chars) ==
    IF \A i \in 1..Len(s) : s[i] \in chars THEN <<>>
    ELSE SubSeq(s, CHOOSE i \in 1..Len(s) :
                        s[i] \notin chars /\ \A j \in 1..(i - 1) : s[j] \in chars,
                Len(s))
RStrip(s, chars) ==
    IF \A i \in 1..Len(s) : s[i] \in chars THEN <<>>
    ELSE SubSeq(s, 1, CHOOSE i \in 1..Len(s) :
                        s[i] \notin chars /\ \A j \in (i + 1)..Len(s) : s[j] \in chars)
Strip(s, chars) == The({ RStrip(left, chars) : left \in { LStrip(s, chars) } })

\* s.split(sep) for a one-character sep: the pieces between the separators
Split(s, sep) ==
    The({ Tuple([k \in 1..(Cardinality(marks) - 1) |->
                SubSeq(s, (CHOOSE c \in marks : Cardinality({d \in marks : d < c}) = k - 1) + 1,
                          (CHOOSE c \in marks : Cardinality({d \in marks : d < c}) = k) - 1)]) :
            marks \in { {0, Len(s) + 1} \cup {i \in 1..Len(s) : s[i] = sep} } })

\* sep.join(list)
RECURSIVE Join(_, _)
Join(list, sep) ==
    IF list = <<>> THEN <<>>
    ELSE IF Len(list) = 1 THEN list[1]
    ELSE list[1] \o sep \o Join(Tail(list), sep)

\* ------------------------------------------------------------------------
\* VARS and the regular expressions
\* ------------------------------------------------------------------------
K_title == <<"{", "t", "i", "t", "l", "e", "}">>
K_artists == <<"{", "a", "r", "t", "i", "s", "t", "s", "}">>
K_artist == <<"{", "a", "r", "t", "i", "s", "t", "}">>
K_album == <<"{", "a", "l", "b", "u", "m", "}">>
K_album_artist == <<"{", "a", "l", "b", "u", "m", "-", "a", "r", "t", "i", "s", "t", "}">>
K_genre == <<"{", "g", "e", "n", "r", "e", "}">>
K_disc_number == <<"{", "d", "i", "s", "c", "-", "n", "u", "m", "b", "e", "r", "}">>
K_disc_count == <<"{", "d", "i", "s", "c", "-", "c", "o", "u", "n", "t", "}">>
K_duration == <<"{", "d", "u", "r", "a", "t", "i", "o", "n", "}">>
K_year == <<"{", "y", "e", "a", "r", "}">>
K_original_date == <<"{", "o", "r", "i", "g", "i", "n", "a", "l", "-", "d", "a", "t", "e", "}">>
K_track_number == <<"{", "t", "r", "a", "c", "k", "-", "n", "u", "m", "b", "e", "r", "}">>
K_tracks_count == <<"{", "t", "r", "a", "c", "k", "s", "-", "c", "o", "u", "n", "t", "}">>
K_isrc == <<"{", "i", "s", "r", "c", "}">>
K_track_id == <<"{", "t", "r", "a", "c", "k", "-", "i", "d", "}">>
K_publisher == <<"{", "p", "u", "b", "l", "i", "s", "h", "e", "r", "}">>
K_list_length == <<"{", "l", "i", "s", "t", "-", "l", "e", "n", "g", "t", "h", "}">>
K_list_position == <<"{", "l", "i", "s", "t", "-", "p", "o", "s", "i", "t", "i", "o", "n", "}">>
K_list_name == <<"{", "l", "i", "s", "t", "-", "n", "a", "m", "e", "}">>
K_output_ext == <<"{", "o", "u", "t", "p", "u", "t", "-", "e", "x", "t", "}">>

VARS == << K_title, K_artists, K_artist, K_album, K_album_artist, K_genre,
           K_disc_number, K_disc_count, K_duration, K_year, K_original_date,
           K_track_number, K_tracks_count, K_isrc, K_track_id, K_publisher,
           K_list_length, K_list_position, K_list_name, K_output_ext >>

\* any(key in template for key in VARS)
HasVar(t) == \E i \in 1..Len(VARS) : Contains(t, VARS[i])

LowerLetters == <<"a", "b", "c", "d", "e", "f", "g", "h", "i", "j", "k", "l", "m", "n", "o", "p", "q", "r", "s", "t", "u", "v", "w", "x", "y", "z">>
UpperLetters == <<"A", "B", "C", "D", "E", "F", "G", "H", "I", "J", "K", "L", "M", "N", "O", "P", "Q", "R", "S", "T", "U", "V", "W", "X", "Y", "Z">>
Range(s) == {s[i] : i \in 1..Len(s)}

\* the characters DISALLOWED_REGEX does not match
SlugAllowed == Range(LowerLetters) \cup Range(UpperLetters) \cup Range(Digits) \cup {"-", "!", "@", "$"}

\* str.lower() of one character
Lower(c) ==
    IF c \in Range(UpperLetters)
    THEN LowerLetters[CHOOSE i \in 1..26 : UpperLetters[i] = c]
    ELSE c

\* unidecode of one character: ASCII is kept, a Latin letter outside ASCII
\* becomes its ASCII spelling (U+00DF is the sharp s, U+00C6 the ligature AE)
Unidecode(c) == IF c = "U+00DF" THEN <<"s", "s">> ELSE IF c = "U+00C6" THEN <<"A", "E">> ELSE <<c>>

\* re.sub(r"[^...]+", sep, s): every maximal run of characters outside
\* `allowed` becomes the one character sep
SubRuns(s, allowed, sep) ==
    The({ The({ SelectIdx(marked, LAMBDA i : s[i] \in ok \/ i = 1 \/ s[i - 1] \in ok) :
                  marked \in { Tuple([i \in 1..Len(s) |->
                                   IF s[i] \in ok THEN s[i] ELSE sep]) } }) :
            ok \in { allowed } })

\* re.sub(r"(?<=\d),(?=\d)", "", s)
DropNumberCommas(s) ==
    LET keep(i) == ~ /\ s[i] = ","
                     /\ i > 1 /\ s[i - 1] \in Range(Digits)
                     /\ i < Len(s) /\ s[i + 1] \in Range(Digits)
    IN  SelectIdx(s, keep)

\* slugify.slugify(text, regex_pattern=DISALLOWED_REGEX.pattern) of python-slugify:
\* quotes become dashes, unidecode, lower case, commas between digits are
\* dropped, runs of disallowed characters become one dash, runs of dashes
\* become one dash, dashes are stripped from both ends
py_slugify(text) ==
    The({ Strip(single, {"-"}) : single \in
        { SubRuns(dashed, Range(dashed) \ {"-"}, "-") : dashed \in
        { SubRuns(numbers, SlugAllowed, "-") : numbers \in
        { DropNumberCommas(lowered) : lowered \in
        { Tuple([i \in 1..Len(ascii) |-> Lower(ascii[i])]) : ascii \in
        { FlatMap(quoted, Unidecode) : quoted \in
        { SubRuns(text, Range(text) \ {"'"}, "-") } } } } } } })

\* sanitize_string
sanitize_string(string) ==
    The({ Replace(quoted, <<":">>, <<"-">>) : quoted \in
        { Replace(output, <<"\"">>, <<"'">>) : output \in
        { RemoveChars(string, {"/", "?", "\\", "*", "|", "<", ">"}) } } })

\* ------------------------------------------------------------------------
\* slugify
\* ------------------------------------------------------------------------
\* the characters of the model's alphabet that JAP_REGEX matches: the kanji
\* U+65E5 and U+672C, the katakana U+30D2, U+30DB and U+30F3 (a character
\* outside ASCII is written as its code point)
JapChars == {"U+65E5", "U+672C", "U+30D2", "U+30DB", "U+30F3"}

\* JAP_REGEX.search(string)
HasJap(string) == \E i \in 1..Len(string) : string[i] \in JapChars

\* The loop of slugify's CJK path over the list `results` that KKS.convert
\* returned.  `item == results[-1]` compares the items' contents; Python's
\* `or` does not evaluate results[index + 1] for an item equal to the last.
RECURSIVE JoinSegments(_, _)
JoinSegments(results, index) ==
    IF index > Len(results) THEN <<>>
    ELSE LET item == results[index]
             skip == \/ item.kana = item.hepburn
                     \/ item.kana = item.hepburn
                     \/ item = results[Len(results)]
                     \/ results[index + 1].kana = results[index + 1].hepburn
         IN  item.hepburn \o (IF ~skip THEN <<"-">> ELSE <<>>)
                 \o JoinSegments(results, index + 1)

\* slugify(string), where `results` is what KKS.convert returns for the
\* string's normal_slug (pykakasi's segmentation and romanization are data of
\* that library: the environment supplies them; they are read on the CJK
\* path only)
slugify(string, results) ==
    IF ~HasJap(string) THEN py_slugify(string)
    ELSE The({ py_slugify(normal_slug) : normal_slug \in { JoinSegments(results, 1) } })

\* the KKS.convert result handed to slugify for a string without CJK characters
NoKKS == <<>>

\* ------------------------------------------------------------------------
\* functools.lru_cache
\* ------------------------------------------------------------------------
\* maxsize of @lru_cache() when none is given
LruMaxSize == 128

\* the cache is the sequence of its entries [key, val], least recently used first
CacheHas(cache, key) == \E i \in 1..Len(cache) : cache[i].key = key

CacheDrop(cache, key) == SelectSeq(cache, LAMBDA e : e.key /= key)

\* a wrapper that stores every result and evicts none (maxsize=None)
CacheCallUnbounded(cache, key, val) ==
    IF CacheHas(cache, key)
    THEN Append(CacheDrop(cache, key), CHOOSE x \in Range(cache) : x.key = key)
    ELSE Append(cache, [key |-> key, val |-> val])

\* one call through the lru_cache wrapper: a hit moves the entry to the
\* most-recent end, a miss stores the result and, when the cache is full,
\* evicts the least recently used entry
CacheCall(cache, key, val) ==
    IF CacheHas(cache, key)
    THEN LET e == CHOOSE x \in Range(cache) : x.key = key
         IN  Append(CacheDrop(cache, key), e)
    ELSE LET stored == Append(cache, [key |-> key, val |-> val])
         IN  IF Len(stored) > LruMaxSize THEN Tail(stored) ELSE stored

\* the cache after the calls slugify(keys[1]), slugify(keys[2]), ...
RECURSIVE SlugCalls(_, _)
SlugCalls(cache, keys) ==
    IF keys = <<>> THEN cache
    ELSE SlugCalls(CacheCall(cache, keys[1], slugify(keys[1], NoKKS)), Tail(keys))

\* ------------------------------------------------------------------------
\* format_query
\* ------------------------------------------------------------------------
\* str(x) of an Optional int
OptInt(x) == IF x.some THEN Some(StrInt(x.v)) ELSE None

\* one round of the loop over the playlist keys: a key that is in the
\* template while its value is None is removed, then "//" is replaced by "/"
RemoveKey(t, key, val) ==
    IF ~(Contains(t, key) /\ ~val.some) THEN t
    ELSE The({ Replace(removed, <<"/", "/">>, <<"/">>) : removed \in { Replace(t, key, <<>>) } })

\* the template after the loop over the three playlist keys
RemoveMissing(sng, t) ==
    The({ RemoveKey(t2, K_list_name, sng.list_name) : t2 \in
        { RemoveKey(t1, K_list_position, sng.list_position) : t1 \in
        { RemoveKey(t, K_list_length, sng.list_length) } } })

\* "If template has only {output-ext}, fix it"
FixOnlyExt(t) ==
    IF t \in {<<"/", ".", "{", "o", "u", "t", "p", "u", "t", "-", "e", "x", "t", "}">>, <<".", "{", "o", "u", "t", "p", "u", "t", "-", "e", "x", "t", "}">>}
    THEN <<"{", "a", "r", "t", "i", "s", "t", "s", "}", " ", "-", " ", "{", "t", "i", "t", "l", "e", "}", ".", "{", "o", "u", "t", "p", "u", "t", "-", "e", "x", "t", "}">>
    ELSE t

\* the filtered list alone, the main artist not put back
ArtistsListNoInsert(sng) ==
    SelectSeq(sng.artists,
              LAMBDA a : ~Contains(slugify(sng.name, NoKKS), slugify(a, NoKKS)))

\* the list `artists`: the artists whose slug is not in the title's slug,
\* with the main artist inserted at the front when the list is empty or
\* starts with another artist
ArtistsList(sng) ==
    The({ IF Len(kept) = 0 \/ kept[1] /= sng.artists[1]
          THEN <<sng.artists[1]>> \o kept
          ELSE kept : kept \in
        { SelectIdx(sng.artists, LAMBDA i : ~Contains(title_slug, slugs[i])) :
            title_slug \in { slugify(sng.name, NoKKS) },
            slugs \in { Tuple([i \in 1..Len(sng.artists) |->
                                slugify(sng.artists[i], NoKKS)]) } } })

\* the arguments of the slugify calls of the list comprehension, in order
RECURSIVE ArtistSlugKeys(_, _)
ArtistSlugKeys(sng, i) ==
    IF i > Len(sng.artists) THEN <<>>
    ELSE <<sng.artists[i], sng.name>> \o ArtistSlugKeys(sng, i + 1)

\* the dict `formats`, in insertion order; every value is the str() of the
\* field, or None
Formats(sng, ext, shrt) ==
    << [key |-> K_title,         val |-> Some(sng.name)],
       [key |-> K_artists,       val |-> Some(IF shrt THEN sng.artists[1]
                                              ELSE Join(ArtistsList(sng), <<",", " ">>))],
       [key |-> K_artist,        val |-> Some(sng.artists[1])],
       [key |-> K_album,         val |-> Some(sng.album_name)],
       [key |-> K_album_artist,  val |-> Some(sng.album_artist)],
       [key |-> K_genre,         val |-> Some(IF sng.genres /= <<>> THEN sng.genres[1] ELSE <<>>)],
       [key |-> K_disc_number,   val |-> Some(StrInt(sng.disc_number))],
       [key |-> K_disc_count,    val |-> Some(StrInt(sng.disc_count))],
       [key |-> K_duration,      val |-> Some(StrInt(sng.duration) \o <<".", "0">>)],
       [key |-> K_year,          val |-> Some(StrInt(sng.year))],
       [key |-> K_original_date, val |-> Some(sng.date)],
       [key |-> K_track_number,  val |-> Some(Zfill(StrInt(sng.track_number), 2))],
       [key |-> K_tracks_count,  val |-> Some(StrInt(sng.tracks_count))],
       [key |-> K_isrc,          val |-> Some(sng.isrc)],
       [key |-> K_track_id,      val |-> Some(sng.song_id)],
       [key |-> K_publisher,     val |-> Some(sng.publisher)],
       [key |-> K_output_ext,    val |-> ext],
       [key |-> K_list_name,     val |-> sng.list_name],
       [key |-> K_list_position, val |-> Some(Zfill(PyStr(OptInt(sng.list_position)),
                                                    Len(PyStr(OptInt(sng.list_length)))))],
       [key |-> K_list_length,   val |-> OptInt(sng.list_length)] >>

\* "sanitize the values in formats dict"
SanitizeFormats(formats) ==
    Tuple([i \in 1..Len(formats) |->
        IF ~formats[i].val.some THEN formats[i]
        ELSE [key |-> formats[i].key, val |-> Some(sanitize_string(formats[i].val.v))]])

\* "Replace all the keys with the values": one str.replace per key, each on
\* the result of the one before; the keys lo..hi of formats, in order
RECURSIVE ReplaceKeys(_, _, _, _)
ReplaceKeys(t, formats, lo, hi) ==
    IF lo > hi THEN t
    ELSE IF lo = hi THEN Replace(t, formats[lo].key, PyStr(formats[lo].val))
    ELSE The({ ReplaceKeys(r, formats, ((lo + hi) \div 2) + 1, hi) : r \in
             { ReplaceKeys(t, formats, lo, (lo + hi) \div 2) } })

\* format_query(song, template, santitize, file_extension, short): what it
\* raises or returns, with the template it substitutes in, the formats dict
\* and the arguments of its slugify calls
format_query(sng, t, san, ext, shrt) ==
    IF Contains(t, K_output_ext) /\ ~ext.some
    THEN [raised |-> "ValueError", template |-> t, formats |-> <<>>,
          out |-> <<>>, slug_keys |-> <<>>]
    ELSE The({ [raised |-> "", template |-> t2, formats |-> fs,
                out |-> ReplaceKeys(t2, fs, 1, Len(fs)),
                slug_keys |-> ArtistSlugKeys(sng, 1)] :
               t2 \in { FixOnlyExt(RemoveMissing(sng, t)) },
               fs \in { IF san THEN SanitizeFormats(f) ELSE f :
                          f \in { Formats(sng, ext, shrt) } } })

\* create_search_query
create_search_query(sng, t, san, ext, shrt) ==
    format_query(sng, IF ~HasVar(t) THEN <<"{", "a", "r", "t", "i", "s", "t", "}", " ", "-", " ", "{", "t", "i", "t", "l", "e", "}">> \o t ELSE t, san, ext, shrt)

\* ------------------------------------------------------------------------
\* create_file_name and restrict_filename
\* ------------------------------------------------------------------------
DefaultTemplate == <<"{", "a", "r", "t", "i", "s", "t", "s", "}", " ", "-", " ", "{", "t", "i", "t", "l", "e", "}", ".", "{", "o", "u", "t", "p", "u", "t", "-", "e", "x", "t", "}">>
ShortTemplate == <<"{", "a", "r", "t", "i", "s", "t", "}", " ", "-", " ", "{", "t", "i", "t", "l", "e", "}", ".", "{", "o", "u", "t", "p", "u", "t", "-", "e", "x", "t", "}">>
MinimalTemplate == <<"{", "t", "i", "t", "l", "e", "}", ".", "{", "o", "u", "t", "p", "u", "t", "-", "e", "x", "t", "}">>

\* the leaf name must be shorter than this
MaxNameLen == 255
\* a title longer than this is cut when the short template is too long
MaxTitleLen == 240

\* the local `template` before the call of format_query
NormalizeTemplate(t) ==
    The({ IF ~EndsWith(t3, <<".", "{", "o", "u", "t", "p", "u", "t", "-", "e", "x", "t", "}">>) THEN t3 \o <<".", "{", "o", "u", "t", "p", "u", "t", "-", "e", "x", "t", "}">> ELSE t3 : t3 \in
        { IF EndsWith(t2, <<"/">>) \/ EndsWith(t2, <<"\\", "\\">>) \/ EndsWith(t2, <<"\\", "\\">>)
          THEN t2 \o <<"/">> \o DefaultTemplate ELSE t2 : t2 \in
        { IF t1 = <<>> THEN DefaultTemplate ELSE t1 : t1 \in
        { IF ~HasVar(t) /\ t /= <<>> THEN t \o <<"/">> \o DefaultTemplate ELSE t } } } })

\* Path(s).parts of a PosixPath: the root, if any, then the components
\* that are neither empty nor "."
PathParts(s) ==
    LET root == IF StartsWith(s, <<"/", "/">>) /\ ~StartsWith(s, <<"/", "/", "/">>) THEN <<<<"/", "/">>>>
                ELSE IF StartsWith(s, <<"/">>) THEN <<<<"/">>>>
                ELSE <<>>
    IN  root \o SelectSeq(Split(s, "/"), LAMBDA c : c /= <<>> /\ c /= <<".">>)

\* re.search(r"[^\.*](.*)[^\.*$]", part).group(0), or part itself when the
\* pattern does not match or part is ".spotdl": the match starts at the first
\* character that is neither "." nor "*" and, greedily, ends at the last
\* later character that is none of ".", "*", "$"
SanitizePart(part) ==
    LET head == LStrip(part, {".", "*"})
        i0   == Len(part) - Len(head) + 1
        body == RStrip(part, {".", "*", "$"})
    IN  IF head = <<>> \/ Len(body) <= i0 \/ part = <<".", "s", "p", "o", "t", "d", "l">> THEN part
        ELSE SubSeq(part, i0, Len(body))

\* the parts of `file` after Path(*santitized_parts)
SanitizeParts(parts) == Tuple([i \in 1..Len(parts) |-> SanitizePart(parts[i])])

\* file.name: the last part, "" for a path that is empty or only its root
PathName(parts) ==
    IF parts = <<>> \/ parts[Len(parts)] \in {<<"/">>, <<"/", "/">>} THEN <<>>
    ELSE parts[Len(parts)]

\* the new song.name: whole words of the title, packed while they fit
RECURSIVE PackWords(_, _)
PackWords(new_name, name_parts) ==
    IF name_parts = <<>> THEN new_name
    ELSE IF Len(new_name) + Len(name_parts[1]) < MaxTitleLen
         THEN The({ PackWords(longer, rest) :
                        longer \in { new_name \o name_parts[1] \o <<" ">> },
                        rest \in { Tail(name_parts) } })
         ELSE new_name
TruncateName(name) ==
    The({ Strip(new_name, {" "}) : new_name \in
        { PackWords(<<>>, name_parts) : name_parts \in { Split(name, " ") } } })

\* yt_dlp's replace_insane(char) with restricted=True: an accented letter
\* becomes its ASCII spelling, "?" and the double quote are dropped, ":"
\* becomes "_-", every other character outside the portable set becomes "_"
ReplaceInsane(c) ==
    IF c = "U+00DF" THEN <<"s", "s">>
    ELSE IF c = "U+00C6" THEN <<"A", "E">>
    ELSE IF c \in {"?", "\""} THEN <<>>
    ELSE IF c = ":" THEN <<"_", "-">>
    ELSE IF c \in {"\\", "/", "|", "*", "<", ">", "!", "&", "'", "(", ")", "[", "]",
                   "{", "}", "$", ";", "^", ",", "#", " "} \cup JapChars
         THEN <<"_">>
    ELSE <<c>>

\* "__" is replaced by "_" until none is left
RECURSIVE CollapseUnderscores(_)
CollapseUnderscores(s) ==
    IF Contains(s, <<"_", "_">>)
    THEN The({ CollapseUnderscores(once) : once \in { Replace(s, <<"_", "_">>, <<"_">>) } })
    ELSE s

\* yt_dlp.utils.sanitize_filename(s, True, False)
sanitize_filename(s) ==
    IF s = <<>> THEN <<>>
    ELSE The({ IF nodot = <<>> THEN <<"_">> ELSE nodot : nodot \in
             { LStrip(dash, {"."}) : dash \in
             { IF StartsWith(cut, <<"-">>) THEN <<"_">> \o Tail(cut) ELSE cut : cut \in
             { IF StartsWith(stripped, <<"-", "_">>) THEN SubSeq(stripped, 3, Len(stripped))
               ELSE stripped : stripped \in
             { Strip(collapsed, {"_"}) : collapsed \in
             { CollapseUnderscores(mapped) : mapped \in
             { FlatMap(s, ReplaceInsane) } } } } } } })

\* restrict_filename(pathobj), on the parts of the path
restrict_filename(parts) ==
    The({ [parts EXCEPT ![Len(parts)] = IF replaced = <<>> THEN <<"_">> ELSE replaced] :
            replaced \in
        { Replace(sanitized, <<"_", "-", "_">>, <<"-">>) : sanitized \in
        { sanitize_filename(name) : name \in { PathName(parts) } } } })

\* ------------------------------------------------------------------------
\* fuzz.ratio
\* ------------------------------------------------------------------------
\* length of a longest common subsequence of s[1..i] and t[1..j]
RECURSIVE LcsLen(_, _, _, _)
LcsLen(s, t, i, j) ==
    IF i = 0 \/ j = 0 THEN 0
    ELSE IF s[i] = t[j] THEN 1 + LcsLen(s, t, i - 1, j - 1)
    ELSE LET a == LcsLen(s, t, i - 1, j)
             b == LcsLen(s, t, i, j - 1)
         IN  IF a >= b THEN a ELSE b

\* ratio(string1, string2): rapidfuzz's normalized Indel similarity,
\* 100 * 2 * lcs / (len1 + len2), as the fraction num / den (100 for two
\* empty strings)
ratio(string1, string2) ==
    IF Len(string1) + Len(string2) = 0 THEN [num |-> 100, den |-> 1]
    ELSE [num |-> 200 * LcsLen(string1, string2, Len(string1), Len(string2)),
          den |-> Len(string1) + Len(string2)]

\* ------------------------------------------------------------------------
\* The inputs the model calls the operations with
\* ------------------------------------------------------------------------
BaseSong ==
    [name |-> <<"L", "o", "v", "e", " ", "S", "o", "n", "g">>, artists |-> <<<<"L", "o", "v", "e", " ", "S", "o", "n", "g">>, <<"F", "e", "a", "t", " ", "A", "r", "t", "i", "s", "t">>>>,
     album_name |-> <<"A", "l", "b", "u", "m">>, album_artist |-> <<"B", "a", "n", "d">>, genres |-> <<<<"p", "o", "p">>>>,
     disc_number |-> 1, disc_count |-> 2, duration |-> 180, year |-> 2020,
     date |-> <<"2", "0", "2", "0", "-", "0", "1", "-", "0", "2">>, track_number |-> 3, tracks_count |-> 12,
     isrc |-> <<"U", "S", "1", "2", "3">>, song_id |-> <<"i", "d", "7">>, publisher |-> <<"L", "a", "b", "e", "l">>,
     list_name |-> None, list_position |-> None, list_length |-> None]

InList(sng) ==
    [sng EXCEPT !.list_name = Some(<<"M", "y", ":", " ", "L", "i", "s", "t">>), !.list_position = Some(7),
                !.list_length = Some(120)]

\* a title of n words of w letters
Words(n, w) == Join(Tuple([i \in 1..n |-> Rep("a", w)]), <<" ">>)

\* songs with short fields
ShortSongs ==
    { BaseSong,
      InList(BaseSong),
      [BaseSong EXCEPT !.list_length = Some(9)],
      [BaseSong EXCEPT !.name = <<"{", "a", "l", "b", "u", "m", "}">>, !.artists = <<<<"A", "C", "/", "D", "C">>>>],
      [BaseSong EXCEPT !.name = <<"H", "i", "t", ",", " ", "T", "h", "e">>, !.artists = <<<<"A", "n", "n">>, <<"T", "h", "e", " ", "H", "i", "t">>, <<"A", "n", "n">>, <<"B", "o">>>>,
                       !.genres = <<>>],
      [BaseSong EXCEPT !.name = <<"a", ".">>, !.artists = <<<<"?", "?", "?">>, <<"B", "*">>>>, !.album_name = <<".", ".">>],
      [BaseSong EXCEPT !.name = <<"C", "a", "s", "h", "$">>, !.artists = <<<<"{", "t", "i", "t", "l", "e", "}">>>>,
                       !.album_name = <<"{", "l", "i", "s", "t", "-", "{", "l", "i", "s", "t", "-", "n", "a", "m", "e", "}", "n", "a", "m", "e", "}">>] }

\* songs whose file name can reach 255 characters
LongSongs ==
    { [BaseSong EXCEPT !.name = Rep("a", 300)],
      [BaseSong EXCEPT !.name = Words(5, 60)],
      [BaseSong EXCEPT !.name = Rep("a", MaxTitleLen)],
      [BaseSong EXCEPT !.name = Words(2, 100), !.artists = <<Rep("b", 80), Rep("c", 80)>>],
      [BaseSong EXCEPT !.name = Rep("U+00DF", 130), !.artists = <<<<"A", "n", "n">>>>] }

Songs == ShortSongs \cup LongSongs

\* templates of file names
FileTemplates ==
    { <<>>, <<"{", "t", "i", "t", "l", "e", "}">>, <<"{", "a", "r", "t", "i", "s", "t", "}", " ", "-", " ", "{", "t", "i", "t", "l", "e", "}">>, <<"{", "a", "r", "t", "i", "s", "t", "s", "}", " ", "-", " ", "{", "t", "i", "t", "l", "e", "}", ".", "{", "o", "u", "t", "p", "u", "t", "-", "e", "x", "t", "}">>,
      <<"m", "u", "s", "i", "c">>, <<"{", "a", "l", "b", "u", "m", "}", "/", "{", "t", "i", "t", "l", "e", "}", "/">>, <<".", ".", "/", "x", "/", "{", "t", "i", "t", "l", "e", "}", "$", "/", "{", "a", "r", "t", "i", "s", "t", "}", ".">>,
      <<".", "s", "p", "o", "t", "d", "l", "/", "*", "{", "l", "i", "s", "t", "-", "n", "a", "m", "e", "}", "*", "/", "{", "t", "i", "t", "l", "e", "}">>, <<"/", "{", "a", "l", "b", "u", "m", "}", "/", ".", "a", ".", "/", "{", "a", "r", "t", "i", "s", "t", "s", "}", "{", "t", "i", "t", "l", "e", "}", "{", "t", "i", "t", "l", "e", "}">> }

\* templates of queries
QueryTemplates ==
    { <<>>, <<"{", "a", "r", "t", "i", "s", "t", "s", "}", " ", "-", " ", "{", "t", "i", "t", "l", "e", "}">>, <<"{", "t", "i", "t", "l", "e", "}", " ", "{", "a", "l", "b", "u", "m", "}", " ", "{", "n", "o", "n", "e", "}">>, <<"l", "i", "v", "e">>,
      <<"a", "/", "{", "l", "i", "s", "t", "-", "n", "a", "m", "e", "}", "/", "{", "l", "i", "s", "t", "-", "n", "a", "m", "e", "}", "/", "b", ".", "{", "o", "u", "t", "p", "u", "t", "-", "e", "x", "t", "}">>,
      <<"{", "l", "i", "s", "t", "-", "l", "e", "n", "g", "t", "h", "}", "/", "{", "l", "i", "s", "t", "-", "p", "o", "s", "i", "t", "i", "o", "n", "}", "/", "{", "l", "i", "s", "t", "-", "n", "a", "m", "e", "}", "/", "{", "t", "i", "t", "l", "e", "}">>,
      <<"{", "l", "i", "s", "t", "-", "{", "l", "i", "s", "t", "-", "n", "a", "m", "e", "}", "n", "a", "m", "e", "}">>, <<"/", "{", "l", "i", "s", "t", "-", "n", "a", "m", "e", "}", ".", "{", "o", "u", "t", "p", "u", "t", "-", "e", "x", "t", "}">>,
      <<"{", "a", "r", "t", "i", "s", "t", "}", ",", "{", "a", "l", "b", "u", "m", "-", "a", "r", "t", "i", "s", "t", "}", ",", "{", "g", "e", "n", "r", "e", "}", ",", "{", "d", "i", "s", "c", "-", "n", "u", "m", "b", "e", "r", "}", ",", "{", "d", "i", "s", "c", "-", "c", "o", "u", "n", "t", "}", ",", "{", "d", "u", "r", "a", "t", "i", "o", "n", "}", ",", "{", "y", "e", "a", "r", "}", ",", "{", "o", "r", "i", "g", "i", "n", "a", "l", "-", "d", "a", "t", "e", "}", ",", "{", "t", "r", "a", "c", "k", "-", "n", "u", "m", "b", "e", "r", "}", ",", "{", "t", "r", "a", "c", "k", "s", "-", "c", "o", "u", "n", "t", "}", ",", "{", "i", "s", "r", "c", "}", ",", "{", "t", "r", "a", "c", "k", "-", "i", "d", "}", ",", "{", "p", "u", "b", "l", "i", "s", "h", "e", "r", "}">> }

Extensions == { <<"m", "p", "3">>, <<"m", "p", "3", ".", "p", "a", "r", "t", "-", "0", "0", "0", "0", "0", "1">> }

\* what KKS.convert returns: lists of at most MaxSegs items, each either
\* Latin text (romanization equal to the kana form) or a Japanese word
KKSItems ==
    { [orig |-> <<"a", "b">>, kana |-> <<"a", "b">>, hepburn |-> <<"a", "b">>],
      [orig |-> <<"U+65E5">>, kana |-> <<"U+30D2">>, hepburn |-> <<"h", "i">>],
      [orig |-> <<"U+672C">>, kana |-> <<"U+30DB", "U+30F3">>, hepburn |-> <<"h", "o", "n">>] }

KKSResults == UNION { [1..n -> KKSItems] : n \in 0..MaxSegs }

\* strings with CJK characters
JapStrings == { <<"U+65E5", "U+672C">>, <<"a", "b", " ">> \o <<"U+672C">> }

\* the n-th key of the cache specification, as a str
CacheKey(n) == <<"k">> \o StrInt(n)

\* ------------------------------------------------------------------------
\* The state machine
\* ------------------------------------------------------------------------
Init ==
    /\ pc = "idle"
    /\ op = "none"
    /\ song = None
    /\ song0 = None
    /\ template = <<>>
    /\ file_extension = None
    /\ santitize = FALSE
    /\ restrict = FALSE
    /\ short = FALSE
    /\ attempts = <<>>
    /\ fq = None
    /\ file = <<>>
    /\ result = None
    /\ kks = <<>>
    /\ slug_cache = <<>>
    /\ ratio_cache = <<>>
    /\ last_call = NoCall
    /\ called = {}
    /\ ncalls = 0
    /\ MetaIdle

\* a top-level call format_query(song, template, santitize, file_extension, short)
FormatQuery ==
    /\ pc = "idle"
    /\ \E sng \in ShortSongs, t \in QueryTemplates, san \in BOOLEAN,
          ext \in {None, Some(<<"m", "p", "3">>)}, shrt \in BOOLEAN :
        LET r == format_query(sng, t, san, ext, shrt)
        IN  /\ op' = "format_query"
            /\ song' = sng
            /\ song0' = sng
            /\ template' = t
            /\ santitize' = san
            /\ file_extension' = ext
            /\ short' = shrt
            /\ fq' = r
            /\ slug_cache' = SlugCalls(slug_cache, r.slug_keys)
            /\ result' = IF r.raised /= "" THEN [kind |-> r.raised, v |-> <<>>]
                         ELSE [kind |-> "str", v |-> r.out]
            /\ pc' = IF r.raised /= "" THEN "raised" ELSE "returned"
    /\ UNCHANGED metaVars
    /\ UNCHANGED <<restrict, attempts, file, kks, ratio_cache, last_call, called, ncalls>>

\* a top-level call create_search_query(song, template, santitize, file_extension, short)
CreateSearchQuery ==
    /\ pc = "idle"
    /\ \E sng \in ShortSongs, t \in QueryTemplates, san \in BOOLEAN,
          ext \in {None, Some(<<"m", "p", "3">>)}, shrt \in BOOLEAN :
        LET r == create_search_query(sng, t, san, ext, shrt)
        IN  /\ op' = "create_search_query"
            /\ song' = sng
            /\ song0' = sng
            /\ template' = t
            /\ santitize' = san
            /\ file_extension' = ext
            /\ short' = shrt
            /\ fq' = r
            /\ slug_cache' = SlugCalls(slug_cache, r.slug_keys)
            /\ result' = IF r.raised /= "" THEN [kind |-> r.raised, v |-> <<>>]
                         ELSE [kind |-> "str", v |-> r.out]
            /\ pc' = IF r.raised /= "" THEN "raised" ELSE "returned"
    /\ UNCHANGED metaVars
    /\ UNCHANGED <<restrict, attempts, file, kks, ratio_cache, last_call, called, ncalls>>

\* a top-level call slugify(string) of a string with CJK characters, for
\* which KKS.convert returns `results`
SlugifyJap ==
    /\ pc = "idle"
    /\ \E string \in JapStrings, results \in KKSResults :
        /\ op' = "slugify"
        /\ kks' = results
        /\ result' = [kind |-> "str", v |-> slugify(string, results)]
        /\ slug_cache' = CacheCall(slug_cache, string, slugify(string, results))
    /\ pc' = "returned"
    /\ UNCHANGED metaVars
    /\ UNCHANGED <<song, song0, template, file_extension, santitize, restrict, short,
                   attempts, fq, file, ratio_cache, last_call, called, ncalls>>

\* a top-level call create_file_name(song, template, file_extension, restrict, short)
CreateFileName ==
    /\ pc = "idle"
    /\ \E sng \in Songs, t \in FileTemplates, ext \in Extensions,
          res \in BOOLEAN, shrt \in BOOLEAN :
        /\ op' = "create_file_name"
        /\ song' = sng
        /\ song0' = sng
        /\ template' = t
        /\ file_extension' = Some(ext)
        /\ restrict' = res
        /\ short' = shrt
    /\ santitize' = TRUE
    /\ pc' = "format"
    /\ UNCHANGED metaVars
    /\ UNCHANGED <<attempts, fq, file, result, kks, slug_cache, ratio_cache, last_call,
                   called, ncalls>>

\* one invocation of create_file_name up to the length check: the template is
\* completed, format_query runs and the parts of the path are sanitized
FormatPass ==
    /\ pc = "format"
    /\ \E t \in { NormalizeTemplate(template) } :
       \E r \in { format_query(song, t, TRUE, file_extension, short) } :
           /\ template' = t
           /\ fq' = r
           /\ file' = SanitizeParts(PathParts(r.out))
           /\ attempts' = Append(attempts, <<t, short>>)
           /\ slug_cache' = SlugCalls(slug_cache, r.slug_keys)
    /\ pc' = "check"
    /\ UNCHANGED metaVars
    /\ UNCHANGED <<op, song, song0, file_extension, santitize, restrict, short, result,
                   kks, ratio_cache, last_call, called, ncalls>>

\* len(file.name) < 255: the path is returned, through restrict_filename when
\* restrict is set
ReturnFile ==
    /\ pc = "check"
    /\ Len(PathName(file)) < MaxNameLen
    /\ result' = [kind |-> "path", v |-> IF restrict THEN restrict_filename(file) ELSE file]
    /\ pc' = "returned"
    /\ UNCHANGED metaVars
    /\ UNCHANGED <<op, song, song0, template, file_extension, santitize, restrict, short,
                   attempts, fq, file, kks, slug_cache, ratio_cache, last_call, called, ncalls>>

\* the name is too long and short is not set: the same template again, with short=True
RetryShort ==
    /\ pc = "check"
    /\ ~(Len(PathName(file)) < MaxNameLen)
    /\ ~short
    /\ short' = TRUE
    /\ pc' = "format"
    /\ UNCHANGED metaVars
    /\ UNCHANGED <<op, song, song0, template, file_extension, santitize, restrict,
                   attempts, fq, file, result, kks, slug_cache, ratio_cache, last_call,
                   called, ncalls>>

\* the short template once more, in place of the minimal one
ShortTemplateAgain == ShortTemplate

\* the template a too long short template is replaced by
AfterShortTemplate == MinimalTemplate

\* the template any other too long template is replaced by
AfterOtherTemplate == ShortTemplate

\* the name is too long with the short template: a title of more than 240
\* characters is cut, in the caller's Song object, and the minimal template is tried
ShortenTitle ==
    /\ pc = "check"
    /\ ~(Len(PathName(file)) < MaxNameLen)
    /\ short
    /\ template = ShortTemplate
    /\ song' = IF Len(song.name) > MaxTitleLen
               THEN [song EXCEPT !.name = TruncateName(song.name)]
               ELSE song
    /\ template' = AfterShortTemplate
    /\ pc' = "format"
    /\ UNCHANGED metaVars
    /\ UNCHANGED <<op, song0, file_extension, santitize, restrict, short, attempts, fq,
                   file, result, kks, slug_cache, ratio_cache, last_call, called, ncalls>>

\* the name is too long with the minimal template: RecursionError
RaiseRecursionError ==
    /\ pc = "check"
    /\ ~(Len(PathName(file)) < MaxNameLen)
    /\ short
    /\ template /= ShortTemplate
    /\ template = MinimalTemplate
    /\ result' = [kind |-> "RecursionError", v |-> <<>>]
    /\ pc' = "raised"
    /\ UNCHANGED metaVars
    /\ UNCHANGED <<op, song, song0, template, file_extension, santitize, restrict, short,
                   attempts, fq, file, kks, slug_cache, ratio_cache, last_call, called, ncalls>>

\* the name is too long with any other template: the short template is tried
RetryDefault ==
    /\ pc = "check"
    /\ ~(Len(PathName(file)) < MaxNameLen)
    /\ short
    /\ template /= ShortTemplate
    /\ template /= MinimalTemplate
    /\ template' = AfterOtherTemplate
    /\ pc' = "format"
    /\ UNCHANGED metaVars
    /\ UNCHANGED <<op, song, song0, file_extension, santitize, restrict, short, attempts,
                   fq, file, result, kks, slug_cache, ratio_cache, last_call, called, ncalls>>

Next ==
    \/ FormatQuery
    \/ CreateSearchQuery
    \/ SlugifyJap
    \/ CreateFileName
    \/ FormatPass
    \/ ReturnFile
    \/ RetryShort
    \/ ShortenTitle
    \/ RaiseRecursionError
    \/ RetryDefault

Spec == Init /\ [][Next]_vars

\* the steps after the length check of a call of create_file_name
AfterCheck ==
    \/ ReturnFile
    \/ RetryShort
    \/ ShortenTitle
    \/ RaiseRecursionError
    \/ RetryDefault

\* the move of the caller's position that FormatPass makes; FormatPass has
\* no other condition than the position
StartCheck == pc = "format" /\ pc' = "check"

\* a call of create_file_name that was made keeps executing
FairSpec == Spec /\ WF_pc(StartCheck) /\ WF_vars(AfterCheck)

\* ------------------------------------------------------------------------
\* The memoized functions, called directly
\* ------------------------------------------------------------------------
\* one process calls one of the two memoized functions again and again: with
\* a key it has not used before, or with the first key it used
InitCache ==
    /\ pc = "idle"
    /\ op \in {"slugify", "ratio"}
    /\ song = None
    /\ song0 = None
    /\ template = <<>>
    /\ file_extension = None
    /\ santitize = FALSE
    /\ restrict = FALSE
    /\ short = FALSE
    /\ attempts = <<>>
    /\ fq = None
    /\ file = <<>>
    /\ result = None
    /\ kks = <<>>
    /\ slug_cache = <<>>
    /\ ratio_cache = <<>>
    /\ last_call = NoCall
    /\ called = {}
    /\ ncalls = 0
    /\ MetaIdle

\* the value the wrapper returns: the stored one on a hit, else the computed one
CacheValue(cache, key, val) ==
    IF CacheHas(cache, key) THEN (CHOOSE x \in Range(cache) : x.key = key).val ELSE val

\* slugify(string) for a string without CJK characters
CallSlugify ==
    /\ op = "slugify"
    /\ \E n \in {1, ncalls + 1} :
        /\ n <= LruMaxSize + ExtraCalls
        /\ LET string == CacheKey(n)
           IN  /\ last_call' = [key |-> string, again |-> string \in called,
                                hit |-> CacheHas(slug_cache, string)]
               /\ result' = [kind |-> "str",
                             v |-> CacheValue(slug_cache, string, slugify(string, NoKKS))]
               /\ slug_cache' = CacheCall(slug_cache, string, slugify(string, NoKKS))
               /\ called' = called \cup {string}
        /\ ncalls' = IF n > ncalls THEN n ELSE ncalls
    /\ UNCHANGED metaVars
    /\ UNCHANGED <<pc, op, song, song0, template, file_extension, santitize, restrict,
                   short, attempts, fq, file, kks, ratio_cache>>

\* ratio(string1, string2)
CallRatio ==
    /\ op = "ratio"
    /\ \E n \in {1, ncalls + 1} :
        /\ n <= LruMaxSize + ExtraCalls
        /\ LET key == <<CacheKey(n), CacheKey(1)>>
           IN  /\ last_call' = [key |-> key, again |-> key \in called,
                                hit |-> CacheHas(ratio_cache, key)]
               /\ result' = [kind |-> "float",
                             v |-> CacheValue(ratio_cache, key, ratio(key[1], key[2]))]
               /\ ratio_cache' = CacheCall(ratio_cache, key, ratio(key[1], key[2]))
               /\ called' = called \cup {key}
        /\ ncalls' = IF n > ncalls THEN n ELSE ncalls
    /\ UNCHANGED metaVars
    /\ UNCHANGED <<pc, op, song, song0, template, file_extension, santitize, restrict,
                   short, attempts, fq, file, kks, slug_cache>>

NextCache ==
    \/ CallSlugify
    \/ CallRatio

SpecCache == InitCache /\ [][NextCache]_vars

\* ------------------------------------------------------------------------
\* meta (src/spotdl/console/meta.py): one pool_worker task per selected file on
\* the downloader's event loop; every task holds the downloader's semaphore
\* while process_file runs in a thread of the loop's executor
\* ------------------------------------------------------------------------
\* most files a call of meta selects
MaxFiles == 3
\* largest initial value of the downloader's semaphore
MaxThreads == 2

\* the fields of the file's metadata that process_file reads
MetaFields == {"name", "artist", "artists", "album_art", "lyrics", "track_number"}

\* get_file_metadata returned None
NoMeta == [none |-> TRUE, fields |-> {}]

\* what get_file_metadata returns: None, or a dict; of a dict the model keeps
\* the fields that hold a value (a field that is absent, None or empty is left out)
SongMetas ==
    { NoMeta,
      [none |-> FALSE, fields |-> {}],
      [none |-> FALSE, fields |-> MetaFields],
      [none |-> FALSE, fields |-> MetaFields \ {"track_number"}],
      [none |-> FALSE, fields |-> MetaFields \ {"lyrics"}],
      [none |-> FALSE, fields |-> MetaFields \ {"lyrics", "album_art"}] }

\* lines 59-66: the file has all the fields, nothing to do
HasAllMetadata(m, force) ==
    /\ ~m.none
    /\ m.fields # {}
    /\ ~force
    /\ {"artist", "artists", "name", "lyrics", "album_art"} \subseteq m.fields

\* lines 71-82: the song is searched for by the file's stem
NeedsSearch(m, force) ==
    \/ m.none
    \/ m.fields = {}
    \/ ~({"name", "album_art", "artist", "artists", "track_number"} \subseteq m.fields)
    \/ force

\* where process_file goes after get_file_metadata returned m
AfterMetadata(m, force) ==
    IF HasAllMetadata(m, force) THEN "returned"
    ELSE IF NeedsSearch(m, force) THEN "get_search_results"
    ELSE "reinit_song"

\* line 104: where process_file goes once it has the song
AfterSong(m) ==
    IF m.none \/ "lyrics" \notin m.fields THEN "search_lyrics" ELSE "embed_metadata"

\* process_file of file i has ended, by returning or by raising
Ended(i) == process[i] \in {"returned", "raised"}

\* the first step of every task has run (the tasks of the gather are scheduled
\* before the loop starts and take their first step in the order of creation)
AllStarted == \A j \in 1..paths : tasks[j] # "created"

\* pool_worker enters process_file: run_in_executor hands the call to a thread
Submit(i) ==
    /\ tasks' = [tasks EXCEPT ![i] = "executing"]
    /\ process' = [process EXCEPT ![i] = "get_file_metadata"]

\* asyncio.gather without return_exceptions: the outcome after task i ended
Gather(i, failed) ==
    IF gathered # "pending" THEN gathered
    ELSE IF failed THEN "exception"
    ELSE IF \A j \in (1..paths) \ {i} : tasks[j] = "finished" THEN "result"
    ELSE "pending"

\* meta(query, downloader): the paths are collected, one coroutine per path is
\* gathered and the loop is run until the gather is done
Meta ==
    /\ meta_pc = "idle"
    /\ \E n \in 0..MaxFiles, threads \in 1..MaxThreads, force \in BOOLEAN :
        /\ paths' = n
        /\ force_update_metadata' = force
        /\ semaphore' = threads
        /\ tasks' = [i \in 1..n |-> "created"]
        /\ process' = [i \in 1..n |-> "none"]
        /\ song_meta' = [i \in 1..n |-> NoMeta]
        /\ gathered' = IF n = 0 THEN "result" ELSE "pending"
    /\ waiters' = <<>>
    /\ meta_pc' = "loop"
    /\ UNCHANGED formatterVars

\* the first step of a pool_worker task: `async with downloader.semaphore`
\* takes the semaphore, or blocks in acquire
PoolWorker ==
    /\ meta_pc = "loop"
    /\ \E i \in 1..paths :
        /\ tasks[i] = "created"
        /\ \A j \in 1..(i - 1) : tasks[j] # "created"
        /\ IF semaphore > 0
           THEN /\ semaphore' = semaphore - 1
                /\ Submit(i)
                /\ UNCHANGED waiters
           ELSE /\ tasks' = [tasks EXCEPT ![i] = "acquiring"]
                /\ waiters' = Append(waiters, i)
                /\ UNCHANGED <<semaphore, process>>
    /\ UNCHANGED <<meta_pc, paths, force_update_metadata, song_meta, gathered>>
    /\ UNCHANGED formatterVars

\* the first waiter of the semaphore is woken after a release and takes it
Acquire ==
    /\ meta_pc = "loop"
    /\ AllStarted
    /\ waiters # <<>>
    /\ semaphore > 0
    /\ semaphore' = semaphore - 1
    /\ waiters' = Tail(waiters)
    /\ Submit(Head(waiters))
    /\ UNCHANGED <<meta_pc, paths, force_update_metadata, song_meta, gathered>>
    /\ UNCHANGED formatterVars

\* the loop resumes a task whose process_file has ended: the `async with`
\* releases the semaphore, the task ends with the call's outcome and the gather
\* takes note of it
Resume ==
    /\ meta_pc = "loop"
    /\ AllStarted
    /\ \E i \in 1..paths :
        /\ tasks[i] = "executing"
        /\ Ended(i)
        /\ tasks' = [tasks EXCEPT
                        ![i] = IF process[i] = "raised" THEN "failed" ELSE "finished"]
        /\ gathered' = Gather(i, process[i] = "raised")
    /\ semaphore' = semaphore + 1
    /\ UNCHANGED <<meta_pc, paths, force_update_metadata, waiters, process, song_meta>>
    /\ UNCHANGED formatterVars

\* run_until_complete ends once the gather is done: meta returns, or raises the
\* exception of the gather; the loop is stopped
RunUntilComplete ==
    /\ meta_pc = "loop"
    /\ gathered \in {"result", "exception"}
    /\ meta_pc' = IF gathered = "result" THEN "returned" ELSE "raised"
    /\ UNCHANGED <<paths, force_update_metadata, semaphore, waiters, tasks, process,
                   song_meta, gathered>>
    /\ UNCHANGED formatterVars

\* process_file in its thread, line 54: get_file_metadata returns or raises
GetFileMetadata ==
    /\ \E i \in 1..paths :
        /\ process[i] = "get_file_metadata"
        /\ \/ /\ process' = [process EXCEPT ![i] = "raised"]
              /\ UNCHANGED song_meta
           \/ \E m \in SongMetas :
                /\ song_meta' = [song_meta EXCEPT ![i] = m]
                /\ process' = [process EXCEPT
                                  ![i] = AfterMetadata(m, force_update_metadata)]
    /\ UNCHANGED <<meta_pc, paths, force_update_metadata, semaphore, waiters, tasks,
                   gathered>>
    /\ UNCHANGED formatterVars

\* lines 87-92: get_search_results finds nothing, finds the song, or raises
GetSearchResults ==
    /\ \E i \in 1..paths :
        /\ process[i] = "get_search_results"
        /\ \E next \in {"returned", AfterSong(song_meta[i]), "raised"} :
            process' = [process EXCEPT ![i] = next]
    /\ UNCHANGED <<meta_pc, paths, force_update_metadata, semaphore, waiters, tasks,
                   song_meta, gathered>>
    /\ UNCHANGED formatterVars

\* lines 96-100: reinit_song raises QueryError (caught: return None), gives the
\* song, or raises another exception
ReinitSong ==
    /\ \E i \in 1..paths :
        /\ process[i] = "reinit_song"
        /\ \E next \in {"returned", AfterSong(song_meta[i]), "raised"} :
            process' = [process EXCEPT ![i] = next]
    /\ UNCHANGED <<meta_pc, paths, force_update_metadata, semaphore, waiters, tasks,
                   song_meta, gathered>>
    /\ UNCHANGED formatterVars

\* line 106: downloader.search_lyrics returns or raises
SearchLyrics ==
    /\ \E i \in 1..paths :
        /\ process[i] = "search_lyrics"
        /\ \E next \in {"embed_metadata", "raised"} :
            process' = [process EXCEPT ![i] = next]
    /\ UNCHANGED <<meta_pc, paths, force_update_metadata, semaphore, waiters, tasks,
                   song_meta, gathered>>
    /\ UNCHANGED formatterVars

\* lines 113-117: embed_metadata returns, and so does process_file, or raises
EmbedMetadata ==
    /\ \E i \in 1..paths :
        /\ process[i] = "embed_metadata"
        /\ \E next \in {"returned", "raised"} :
            process' = [process EXCEPT ![i] = next]
    /\ UNCHANGED <<meta_pc, paths, force_update_metadata, semaphore, waiters, tasks,
                   song_meta, gathered>>
    /\ UNCHANGED formatterVars

NextMeta ==
    \/ Meta
    \/ PoolWorker
    \/ Acquire
    \/ Resume
    \/ RunUntilComplete
    \/ GetFileMetadata
    \/ GetSearchResults
    \/ ReinitSong
    \/ SearchLyrics
    \/ EmbedMetadata

SpecMeta == Init /\ [][NextMeta]_vars

\* ------------------------------------------------------------------------
\* Properties
\* ------------------------------------------------------------------------
\* the call has returned or raised
Done == pc \in {"returned", "raised"}

\* C1: the leaf name of every path create_file_name returns, also through
\* restrict_filename, has fewer than 255 characters
C1_LeafShorterThan255 ==
    (op = "create_file_name" /\ pc = "returned") => Len(PathName(result.v)) < MaxNameLen

\* no <<template, short>> combination was formatted twice
NoAttemptTwice ==
    \A i, j \in 1..Len(attempts) : i /= j => attempts[i] /= attempts[j]

\* C2 as stated: at most 3 formatting passes in a call of create_file_name,
\* and no (template, short) combination twice
C2_AtMostThreePasses ==
    op = "create_file_name" => (Len(attempts) <= 3 /\ NoAttemptTwice)

\* C2: every call of create_file_name terminates, after at most 4 formatting
\* passes (the template as given, the same with short set, the short
\* template, the minimal template), none of them attempted twice
C2_TerminatesInFourPasses ==
    /\ [](op = "create_file_name" => (Len(attempts) <= 4 /\ NoAttemptTwice))
    /\ (pc \in {"format", "check"}) ~> Done

\* a call that returned after four passes
C2_FourPasses ==
    /\ op = "create_file_name"
    /\ pc = "returned"
    /\ Len(attempts) = 4
    /\ attempts[3] = <<ShortTemplate, TRUE>>
    /\ attempts[4] = <<MinimalTemplate, TRUE>>

\* C3: when create_file_name raises RecursionError the call has passed
\* through the title-truncation step and the title has at most 240 characters
C3_RaisedAfterTruncation ==
    (op = "create_file_name" /\ pc = "raised" /\ result.kind = "RecursionError")
        => /\ \E i \in 1..Len(attempts) : attempts[i] = <<ShortTemplate, TRUE>>
           /\ Len(song.name) <= MaxTitleLen

\* C4: after format_query, create_search_query or create_file_name returned
\* or raised, every field of the Song that was passed in has the value it had
\* before the call
C4_RecordReadOnly ==
    (op \in {"format_query", "create_search_query", "create_file_name"} /\ Done)
        => song = song0

\* the cache of the function SpecCache calls
TheCache == IF op = "ratio" THEN ratio_cache ELSE slug_cache

ExpectedArtists(sng) ==
    <<sng.artists[1]>> \o
    SelectIdx(sng.artists,
              LAMBDA i : i > 1 /\ ~Contains(slugify(sng.name, NoKKS),
                                            slugify(sng.artists[i], NoKKS)))

RECURSIVE SinglePass(_, _, _)
SinglePass(t, formats, i) ==
    LET IsKeyAt(j) == \E k \in 1..Len(formats) : MatchAt(t, formats[k].key, j)
        at == {j \in i..Len(t) : IsKeyAt(j)}
    IN  IF at = {} THEN SubSeq(t, i, Len(t))
        ELSE LET j == SetMin(at)
                 k == CHOOSE k \in 1..Len(formats) : MatchAt(t, formats[k].key, j)
             IN  SubSeq(t, i, j - 1) \o PyStr(formats[k].val)
                     \o SinglePass(t, formats, j + Len(formats[k].key))

\* C7: the string format_query returns is the template with each occurrence
\* of a placeholder replaced by its value in a single pass, the text of an
\* inserted value not being scanned for placeholders
C7_SinglePassSubstitution ==
    (op = "format_query" /\ pc = "returned")
        => result.v = SinglePass(fq.template, fq.formats, 1)

\* C8: every segment of the path create_file_name returns with restrict not
\* set is the formatted segment without its leading and trailing dots and
\* asterisks, and begins and ends with neither; ".spotdl" is passed through
C8_SegmentsStripped ==
    (op = "create_file_name" /\ pc = "returned" /\ ~restrict)
        => LET formatted == PathParts(fq.out)
           IN  /\ Len(result.v) = Len(formatted)
               /\ \A i \in 1..Len(formatted) :
                    IF formatted[i] = <<".", "s", "p", "o", "t", "d", "l">> THEN result.v[i] = formatted[i]
                    ELSE /\ result.v[i] = Strip(formatted[i], {".", "*"})
                         /\ result.v[i] /= <<>> =>
                              /\ result.v[i][1] \notin {".", "*"}
                              /\ result.v[i][Len(result.v[i])] \notin {".", "*"}

\* the placeholders of absent playlist fields
AbsentKeys(sng) ==
    {K_list_length : x \in {1} \cap (IF sng.list_length.some THEN {} ELSE {1})}
    \cup {K_list_position : x \in {1} \cap (IF sng.list_position.some THEN {} ELSE {1})}
    \cup {K_list_name : x \in {1} \cap (IF sng.list_name.some THEN {} ELSE {1})}

\* C9: the template format_query substitutes in holds no placeholder of an
\* absent playlist field, and no "//" that removing such a placeholder created
C9_AbsentPlaceholdersRemoved ==
    (op = "format_query" /\ pc = "returned")
        => /\ \A key \in AbsentKeys(song) : ~Contains(fq.template, key)
           /\ ((\E key \in AbsentKeys(song) : Contains(template, key))
                  /\ ~Contains(template, <<"/", "/">>))
                => ~Contains(fq.template, <<"/", "/">>)

\* the segments joined with a separator after every segment that is not the
\* last by position and whose romanization differs from its kana form
RECURSIVE ExpectedSegments(_, _)
ExpectedSegments(results, index) ==
    IF index > Len(results) THEN <<>>
    ELSE results[index].hepburn
             \o (IF index /= Len(results) /\ results[index].hepburn /= results[index].kana
                 THEN <<"-">> ELSE <<>>)
             \o ExpectedSegments(results, index + 1)

\* C10: slugify's CJK path puts a separator after a segment exactly when the
\* segment is not the last by position and its romanization differs from its
\* kana form, whatever the other segments hold
C10_SeparatorRule ==
    (op = "slugify" /\ pc = "returned")
        => /\ JoinSegments(kks, 1) = ExpectedSegments(kks, 1)
           /\ result.v = py_slugify(ExpectedSegments(kks, 1))

\* process_file of file i is running in a thread of the executor
Running(i) == process[i] \notin {"none", "returned", "raised"}

\* C11: meta returns, normally or by raising, only after the processing of every
\* selected file has finished: once the wait on the gathered tasks has ended no
\* process_file call is running and no task is waiting for the semaphore
C11_NothingInFlightAfterWait ==
    meta_pc \in {"returned", "raised"}
        => \A i \in 1..paths : ~Running(i) /\ tasks[i] \in {"finished", "failed"}

\* meta has raised the exception of one file while process_file runs for
\* another file and the task of a third one waits for the semaphore
C11_RaisedWhileInFlight ==
    /\ meta_pc = "raised"
    /\ \E i \in 1..paths : tasks[i] = "failed"
    /\ \E i \in 1..paths : Running(i)
    /\ \E i \in 1..paths : tasks[i] = "acquiring"
====
